---- MODULE Spec2Model ----
(***************************************************************************)
(* Model of the tide forecast pipeline of quantoid/tides:                  *)
(*   willy_weather.tide_times / interpolate_heights / height_at            *)
(*   tide_times.safe_periods / add_driving / add_safety / add_limits       *)
(*                                                                         *)
(* Timestamps are whole minutes counted from local midnight of the first   *)
(* calendar date of the forecast (the upstream API reports tide and sun    *)
(* times at minute resolution).  A DataFrame is a sequence of records, one *)
(* record per row, one field per column the pipeline reads or writes.      *)
(***************************************************************************)
EXTENDS Integers, Sequences, FiniteSets

VARIABLES extremes,        \* rows built by tide_times from the API entries
          units,           \* tides['units']['height'] of the API response
          sun,             \* forecast['sun']: rows of dawn, dusk
          margin,          \* safer hours either side of low tide
          forecast_tides,  \* forecast['tides']
          tides,           \* the local frame `tides` of add_driving
          pc,              \* position in safe_periods / add_driving
          error,           \* the exception that ended the computation, if any
          calls,           \* number of calls of add_driving on this forecast
          returned         \* what the previous call of add_driving returned

vars == <<extremes, units, sun, margin, forecast_tides, tides, pc, error,
          calls, returned>>

----------------------------------------------------------------------------
(* Program constants *)

MinutesPerHour == 60     \* pd.Timedelta(hours=...)
MinutesPerDay == 1440    \* .dt.date, .dt.floor('D')
NoonHour == 12           \* pd.Timedelta(12, unit='h')
RoundFreq == 5           \* freq='5T'

NaT == -1                \* missing value produced by a left merge
None == -1               \* Python None of the walk's high / low trackers

(* Bounds of the model *)

MaxExtremes == 3         \* most extremes in one forecast
MaxMargin == 1           \* largest margin, in hours
MaxCalls == 2            \* most calls of add_driving on one forecast

----------------------------------------------------------------------------
(* Helpers on sequences and sets *)

Min(S) == CHOOSE x \in S : \A y \in S : x <= y
Max(S) == CHOOSE x \in S : \A y \in S : x >= y
Abs(x) == IF x < 0 THEN -x ELSE x

(* Smallest and largest time among rows lo..hi of a frame (lo <= hi) *)
RECURSIVE SeqMin(_, _, _)
SeqMin(frame, lo, hi) ==
    IF lo = hi THEN frame[lo].time
    ELSE LET mid == (lo + hi) \div 2
             a == SeqMin(frame, lo, mid)
             b == SeqMin(frame, mid + 1, hi)
         IN  IF a <= b THEN a ELSE b

RECURSIVE SeqMax(_, _, _)
SeqMax(frame, lo, hi) ==
    IF lo = hi THEN frame[lo].time
    ELSE LET mid == (lo + hi) \div 2
             a == SeqMax(frame, lo, mid)
             b == SeqMax(frame, mid + 1, hi)
         IN  IF a >= b THEN a ELSE b

RECURSIVE Perms(_)
Perms(S) ==
    IF S = {} THEN {<<>>}
    ELSE UNION {{<<x>> \o p : p \in Perms(S \ {x})} : x \in S}

(* pandas: Series.dt.date *)
Date(t) == t \div MinutesPerDay

(* pandas: Timestamp.ceil(freq='5T') and Timestamp.floor(freq='5T') *)
Floor5(t) == (t \div RoundFreq) * RoundFreq
(* Mutant: the start of a window rounded down instead of up *)
Ceil5_down(t) == (t \div RoundFreq) * RoundFreq
Ceil5(t) == ((t + RoundFreq - 1) \div RoundFreq) * RoundFreq

----------------------------------------------------------------------------
(* willy_weather.height_at.  The cosine is evaluated in integer arithmetic *)
(* with Bhaskara's rational approximation cos(pi f) ~ (1-4f^2)/(1+f^2) for *)
(* 0 <= f <= 1/2, mirrored for f > 1/2; heights are whole centimetres.     *)
(* minute = t - t1 and minutes = t2 - t1.                                  *)

Weight(m, n) ==   \* (cos(pi (m/n + 1)) + 1) / 2 as <<numerator, denominator>>
    IF 2 * m <= n
    THEN <<5 * m * m, 2 * (n * n + m * m)>>
    ELSE LET g == n - m
         IN <<2 * (n * n + g * g) - 5 * g * g, 2 * (n * n + g * g)>>

height_at(t, t1, h1, t2, h2) ==
    LET w == Weight(t - t1, t2 - t1)
    IN h1 + ((h2 - h1) * w[1]) \div w[2]

----------------------------------------------------------------------------
(* willy_weather.interpolate_heights *)

(* Mutant: the loop over range(minutes) without its `if minute` test *)
Added_zero(last, this) ==
    LET minutes == this.time - last.time
    IN  IF minutes <= 0 THEN <<>>
        ELSE [k \in 1..minutes |->
                [time   |-> last.time + (k - 1),
                 height |-> height_at(last.time + (k - 1), last.time, last.height,
                                      this.time, this.height),
                 type   |-> "calc"]]

(* The rows appended to `added` for one pair of consecutive extremes. *)
Added(last, this) ==
    LET minutes == this.time - last.time
    IN  IF minutes <= 1 THEN <<>>
        ELSE [minute \in 1..(minutes - 1) |->
                [time   |-> last.time + minute,
                 height |-> height_at(last.time + minute, last.time, last.height,
                                      this.time, this.height),
                 type   |-> "calc"]]

RECURSIVE AllAdded(_, _)
AllAdded(ext, i) ==
    IF i >= Len(ext) THEN <<>>
    ELSE Added(ext[i], ext[i + 1]) \o AllAdded(ext, i + 1)

(* DataFrame.sort_values('time') with the default, unstable, sort: rows   *)
(* come out ordered by time and rows of equal time in any order.  The set *)
(* of possible results, for the rows of `frame` with time in from..to.    *)
RECURSIVE SortRange(_, _, _)
SortRange(frame, from, to) ==
    IF from > to THEN {<<>>}
    ELSE IF from = to
    THEN LET tie == {i \in DOMAIN frame : frame[i].time = from}
         IN  {[k \in 1..Len(p) |-> frame[p[k]]] : p \in Perms(tie)}
    ELSE LET mid == (from + to) \div 2
         IN  {a \o b : a \in SortRange(frame, from, mid),
                       b \in SortRange(frame, mid + 1, to)}

sort_values(frame) ==
    IF frame = <<>> THEN {<<>>}
    ELSE SortRange(frame, SeqMin(frame, 1, Len(frame)), SeqMax(frame, 1, Len(frame)))

interpolate_heights(ext) ==
    sort_values(ext \o AllAdded(ext, 1))

----------------------------------------------------------------------------
(* tide_times.add_safety *)

(* Mutant: the interval filled includes its two ends *)
Fill_incl(frame, after, before, value) ==
    [i \in DOMAIN frame |->
        IF frame[i].time >= after /\ frame[i].time <= before
        THEN [frame[i] EXCEPT !.low = value]
        ELSE frame[i]]

(* Mutant: the interval filled with the time that ends it *)
Fill_before(frame, after, before, value) ==
    [i \in DOMAIN frame |->
        IF frame[i].time > after /\ frame[i].time < before
        THEN [frame[i] EXCEPT !.low = before]
        ELSE frame[i]]

(* tides.loc[(tides['time'] > after) & (tides['time'] < before), 'low'] = value *)
Fill(frame, after, before, value) ==
    [i \in DOMAIN frame |->
        IF frame[i].time > after /\ frame[i].time < before
        THEN [frame[i] EXCEPT !.low = value]
        ELSE frame[i]]

(* The loop over the rows that are not "calc", from row i of ext on. *)
RECURSIVE Walk(_, _, _, _, _)
Walk(frame, ext, i, high, low) ==
    IF i > Len(ext) THEN frame
    ELSE LET this == ext[i]
         IN  IF this.type = "high"
             THEN Walk(IF low # None
                       THEN Fill(frame, low, this.time, low)
                       ELSE frame,
                       ext, i + 1, this.time, low)
             ELSE IF this.type = "low"
             THEN Walk(IF high # None
                       THEN Fill(frame, high, this.time, this.time)
                       ELSE frame,
                       ext, i + 1, high, this.time)
             ELSE Walk(frame, ext, i + 1, high, low)

NotCalc(r) == r.type # "calc"

(* days = sun.copy(); days['day'] = days['dawn'].dt.date *)
Days(s) == [i \in DOMAIN s |-> [dawn |-> s[i].dawn, dusk |-> s[i].dusk,
                                day |-> Date(s[i].dawn)]]

(* One row of tides after tides['day'] = ..., joined with one row of days *)
(* (NoDay when no row of days has the row's day), then noon and safe.     *)
NoDay == [dawn |-> NaT, dusk |-> NaT]

(* Mutant: the daylight test without its comparison with dawn *)
Classified_night(r, d, m) ==
    LET dawn == d.dawn
        dusk == d.dusk
        low_tide == r.type # "high" /\ Abs(r.low - r.time) < m * MinutesPerHour
        in_daylight == dusk # NaT /\ r.time <= dusk
    IN  [time |-> r.time, height |-> r.height, type |-> r.type, low |-> r.low,
         day  |-> Date(r.time), dawn |-> dawn, dusk |-> dusk,
         noon |-> IF dawn = NaT THEN NaT
                  ELSE Date(dawn) * MinutesPerDay + NoonHour * MinutesPerHour,
         safe |-> low_tide /\ in_daylight]

(* Mutant: a sample exactly `margin` from its low counts as near low tide *)
Classified_le(r, d, m) ==
    LET dawn == d.dawn
        dusk == d.dusk
        low_tide == r.type # "high" /\ Abs(r.low - r.time) <= m * MinutesPerHour
        in_daylight == /\ dawn # NaT /\ r.time >= dawn
                       /\ dusk # NaT /\ r.time <= dusk
    IN  [time |-> r.time, height |-> r.height, type |-> r.type, low |-> r.low,
         day  |-> Date(r.time), dawn |-> dawn, dusk |-> dusk,
         noon |-> IF dawn = NaT THEN NaT
                  ELSE Date(dawn) * MinutesPerDay + NoonHour * MinutesPerHour,
         safe |-> low_tide /\ in_daylight]

Classified(r, d, m) ==
    LET dawn == d.dawn
        dusk == d.dusk
        low_tide == r.type # "high" /\ Abs(r.low - r.time) < m * MinutesPerHour
        in_daylight == /\ dawn # NaT /\ r.time >= dawn
                       /\ dusk # NaT /\ r.time <= dusk
    IN  [time |-> r.time, height |-> r.height, type |-> r.type, low |-> r.low,
         day  |-> Date(r.time), dawn |-> dawn, dusk |-> dusk,
         noon |-> IF dawn = NaT THEN NaT
                  ELSE Date(dawn) * MinutesPerDay + NoonHour * MinutesPerHour,
         safe |-> low_tide /\ in_daylight]

(* Mutant: an inner merge, which drops the rows of a day without sun row *)
RECURSIVE MergeDays_inner(_, _, _, _, _)
MergeDays_inner(frame, days, m, lo, hi) ==
    IF lo > hi THEN <<>>
    ELSE IF lo = hi
    THEN LET r == frame[lo]
             match == SelectSeq(days, LAMBDA d : d.day = Date(r.time))
         IN  IF match = <<>> THEN <<>>
             ELSE [j \in DOMAIN match |-> Classified(r, match[j], m)]
    ELSE LET mid == (lo + hi) \div 2
         IN  MergeDays_inner(frame, days, m, lo, mid)
                 \o MergeDays_inner(frame, days, m, mid + 1, hi)

(* tides.merge(days, how="left", on='day') followed by the noon and safe *)
(* columns, for rows lo..hi of tides: a row with k > 0 matching days      *)
(* yields k rows, a row with none yields one.                             *)
RECURSIVE MergeDays(_, _, _, _, _)
MergeDays(frame, days, m, lo, hi) ==
    IF lo > hi THEN <<>>
    ELSE IF lo = hi
    THEN LET r == frame[lo]
             match == SelectSeq(days, LAMBDA d : d.day = Date(r.time))
         IN  IF match = <<>> THEN <<Classified(r, NoDay, m)>>
             ELSE [j \in DOMAIN match |-> Classified(r, match[j], m)]
    ELSE LET mid == (lo + hi) \div 2
         IN  MergeDays(frame, days, m, lo, mid)
                 \o MergeDays(frame, days, m, mid + 1, hi)

add_safety(frame, s, m) ==
    LET init == [i \in DOMAIN frame |->
                    [time |-> frame[i].time, height |-> frame[i].height,
                     type |-> frame[i].type, low |-> frame[i].time]]
        walked == Walk(init, SelectSeq(init, NotCalc), 1, None, None)
    IN  MergeDays(walked, Days(s), m, 1, Len(walked))

----------------------------------------------------------------------------
(* tide_times.add_limits *)

(* Mutant: a window that rounding collapsed (earliest > latest) is left out *)
Limits_nocollapse(frame) ==
    LET safe == {i \in DOMAIN frame : frame[i].safe}
        First(k) == LET group == SelectSeq(frame, LAMBDA r : r.safe /\ r.low = k)
                    IN  Ceil5(SeqMin(group, 1, Len(group)))
        Last(k) == LET group == SelectSeq(frame, LAMBDA r : r.safe /\ r.low = k)
                   IN  Floor5(SeqMax(group, 1, Len(group)))
        keys == {k \in {frame[i].low : i \in safe} : First(k) <= Last(k)}
    IN  [k \in keys |-> <<First(k), Last(k)>>]

(* Mutant: the rounding turned outward (earliest down, latest up) *)
Limits_outward(frame) ==
    LET safe == {i \in DOMAIN frame : frame[i].safe}
        keys == {frame[i].low : i \in safe}
    IN  [k \in keys |->
            LET group == SelectSeq(frame, LAMBDA r : r.safe /\ r.low = k)
            IN  <<Floor5(SeqMin(group, 1, Len(group))),
                  Ceil5(SeqMax(group, 1, Len(group)))>>]

(* The frame `limits`: one row per value of 'low' among the safe rows,    *)
(* represented as the function from that value to <<earliest, latest>>.   *)
Limits(frame) ==
    LET safe == {i \in DOMAIN frame : frame[i].safe}
        keys == {frame[i].low : i \in safe}
    IN  [k \in keys |->
            LET group == SelectSeq(frame, LAMBDA r : r.safe /\ r.low = k)
            IN  <<Ceil5(SeqMin(group, 1, Len(group))),
                  Floor5(SeqMax(group, 1, Len(group)))>>]

(* tides.merge(limits, how="left", on='low') *)
MergeLimits(frame, limits) ==
    [i \in DOMAIN frame |->
        LET r == frame[i]
            hit == r.low \in DOMAIN limits
        IN  [time |-> r.time, height |-> r.height, type |-> r.type,
             low |-> r.low, day |-> r.day, dawn |-> r.dawn, dusk |-> r.dusk,
             noon |-> r.noon, safe |-> r.safe,
             earliest |-> IF hit THEN limits[r.low][1] ELSE NaT,
             latest   |-> IF hit THEN limits[r.low][2] ELSE NaT]]

(* Mutant: the limits merged onto the safe rows only *)
add_limits_safe(frame) ==
    LET merged == MergeLimits(frame, Limits(frame))
    IN  [i \in DOMAIN merged |->
            IF merged[i].safe THEN merged[i]
            ELSE [merged[i] EXCEPT !.earliest = NaT, !.latest = NaT]]

add_limits(frame) == MergeLimits(frame, Limits(frame))

----------------------------------------------------------------------------
(* tide_times.add_driving: the final selection *)

(* Mutant: the selection keeps the rows at the smallest dusk and largest dawn *)
Trimmed_incl(frame, s) ==
    LET first == Min({s[i].dusk : i \in DOMAIN s})
        last == Max({s[i].dawn : i \in DOMAIN s})
    IN  SelectSeq(frame, LAMBDA r : r.time >= first /\ r.time <= last)

Trimmed(frame, s) ==
    LET first == Min({s[i].dusk : i \in DOMAIN s})
        last == Max({s[i].dawn : i \in DOMAIN s})
    IN  SelectSeq(frame, LAMBDA r : r.time > first /\ r.time < last)

----------------------------------------------------------------------------
(* Inputs *)

Starts == {1377, 1380}
GapPatterns == {<<63, 61>>, <<64, 63>>, <<63, -1>>}
KindPatterns == {<<"low", "high", "low", "high">>, <<"high", "low", "high", "low">>,
                 <<"low", "low", "high", "high">>, <<"high", "high", "low", "low">>}
HeightPatterns == {<<20, 180>>, <<180, 20>>, <<50, 50>>}
Day0Windows == {<<1383, 1431>>, <<1400, 1439>>}
Day1Windows == {<<1441, 1462>>, <<1452, 1500>>}

RECURSIVE TimeOf(_, _, _)
TimeOf(start, gaps, i) ==
    IF i = 1 THEN start
    ELSE TimeOf(start, gaps, i - 1) + gaps[((i - 2) % Len(gaps)) + 1]

Cycle(p, i) == p[((i - 1) % Len(p)) + 1]

ExtremeFrames ==
    {[i \in 1..n |-> [time   |-> TimeOf(st, g, i),
                      height |-> Cycle(h, i),
                      type   |-> Cycle(k, i)]] :
        n \in 1..MaxExtremes, st \in Starts, g \in GapPatterns,
        k \in KindPatterns, h \in HeightPatterns}

Window(w) == [dawn |-> w[1], dusk |-> w[2]]

SunFrames ==
    {<<Window(a)>> : a \in Day0Windows} \cup
    {<<Window(b)>> : b \in Day1Windows} \cup
    {<<Window(a), Window(b)>> : a \in Day0Windows, b \in Day1Windows}

----------------------------------------------------------------------------
(* The state machine *)

Init ==
    /\ extremes \in ExtremeFrames \cup {<<>>}
    /\ units = "m"
    /\ sun \in SunFrames
    /\ margin \in 0..MaxMargin
    /\ forecast_tides = <<>>
    /\ tides = <<>>
    /\ pc = "tide_times"
    /\ error = "none"
    /\ calls = 1
    /\ returned = <<>>

(* willy_weather.forecast: tides = tide_times(...) = interpolate_heights(...). *)
(* Without any entry both frames of the pd.concat have no column and        *)
(* sort_values('time') raises KeyError.                                      *)
TideTimes ==
    /\ pc = "tide_times"
    /\ IF extremes = <<>>
       THEN /\ error' = "KeyError"
            /\ pc' = "raised"
            /\ UNCHANGED forecast_tides
       ELSE /\ forecast_tides' \in interpolate_heights(extremes)
            /\ pc' = "add_safety"
            /\ UNCHANGED error
    /\ UNCHANGED <<extremes, units, sun, margin, tides, calls, returned>>

(* Mutant: add_safety applied to forecast['tides'] itself, not to a copy *)
AddSafety_inplace ==
    /\ pc = "add_safety"
    /\ tides' = add_safety(forecast_tides, sun, margin)
    /\ forecast_tides' = tides'
    /\ pc' = "add_limits"
    /\ UNCHANGED <<extremes, units, sun, margin, error, calls, returned>>

(* add_driving: tides = forecast['tides'].copy(); tides = add_safety(...) *)
AddSafety ==
    /\ pc = "add_safety"
    /\ tides' = add_safety(forecast_tides, sun, margin)
    /\ pc' = "add_limits"
    /\ UNCHANGED <<extremes, units, sun, margin, forecast_tides, error, calls, returned>>

(* add_driving: tides = add_limits(tides) *)
AddLimits ==
    /\ pc = "add_limits"
    /\ tides' = add_limits(tides)
    /\ pc' = "trim"
    /\ UNCHANGED <<extremes, units, sun, margin, forecast_tides, error, calls, returned>>

(* add_driving: return tides[(time > dusk.min()) & (time < dawn.max())] *)
Trim ==
    /\ pc = "trim"
    /\ tides' = Trimmed(tides, sun)
    /\ pc' = "return"
    /\ UNCHANGED <<extremes, units, sun, margin, forecast_tides, error, calls, returned>>

(* safe_periods: forecast['tides'] = add_driving(forecast, margin) *)
SafePeriods ==
    /\ pc = "return"
    /\ forecast_tides' = tides
    /\ pc' = "done"
    /\ UNCHANGED <<extremes, units, sun, margin, tides, error, calls, returned>>

Next == TideTimes \/ AddSafety \/ AddLimits \/ Trim \/ SafePeriods

Spec == Init /\ [][Next]_vars

----------------------------------------------------------------------------
(* The caller's side: a response with any units, and add_driving called    *)
(* again on the forecast it was given, before the result is stored.        *)

Units == {"m", "ft"}

(* The units the older module src/willy.py accepts: assert units == "m" *)
RecognisedUnits == {"m"}

CallerFrames ==
    {f \in ExtremeFrames : f[1].time = Min(Starts) /\ f[1].height = Min({h[1] : h \in HeightPatterns})}

InitCaller ==
    /\ extremes \in CallerFrames \cup {<<>>}
    /\ units \in Units
    /\ sun \in SunFrames
    /\ margin \in 0..MaxMargin
    /\ forecast_tides = <<>>
    /\ tides = <<>>
    /\ pc = "tide_times"
    /\ error = "none"
    /\ calls = 1
    /\ returned = <<>>

(* add_driving(forecast, margin) called once more on the same forecast *)
AddDrivingAgain ==
    /\ pc = "return"
    /\ calls < MaxCalls
    /\ calls' = calls + 1
    /\ returned' = tides
    /\ pc' = "add_safety"
    /\ UNCHANGED <<extremes, units, sun, margin, forecast_tides, tides, error>>

NextCaller ==
    TideTimes \/ AddSafety \/ AddLimits \/ Trim \/ SafePeriods \/ AddDrivingAgain

SpecCaller == InitCaller /\ [][NextCaller]_vars

----------------------------------------------------------------------------
(* One day at full scale: low water at 00:00 and 12:00, high water at      *)
(* 06:00, first light 05:00 and last light 19:00, and the margin the       *)
(* application passes (safe_hours).                                        *)

safe_hours == 3

ScenarioExtremes ==
    << [time |-> 0,                   height |-> 10,  type |-> "low"],
       [time |-> 6 * MinutesPerHour,  height |-> 160, type |-> "high"],
       [time |-> 12 * MinutesPerHour, height |-> 20,  type |-> "low"] >>

ScenarioSun == << [dawn |-> 5 * MinutesPerHour, dusk |-> 19 * MinutesPerHour] >>

ScenarioSunFrames ==
    {ScenarioSun,
     << [dawn |-> 7 * MinutesPerHour, dusk |-> 17 * MinutesPerHour] >>,
     << [dawn |-> MinutesPerDay + 5 * MinutesPerHour,
         dusk |-> MinutesPerDay + 19 * MinutesPerHour] >>}

InitScenario ==
    /\ extremes \in {SubSeq(ScenarioExtremes, 1, n) : n \in 0..Len(ScenarioExtremes)}
    /\ units = "m"
    /\ sun \in ScenarioSunFrames
    /\ margin \in 0..safe_hours
    /\ forecast_tides = <<>>
    /\ tides = <<>>
    /\ pc = "tide_times"
    /\ error = "none"
    /\ calls = 1
    /\ returned = <<>>

SpecScenario == InitScenario /\ [][Next]_vars

----------------------------------------------------------------------------
(* Vocabulary of the properties *)

Rows(frame) == {frame[i] : i \in DOMAIN frame}

(* The extremes are ordered strictly by time *)
Increasing == \A i \in 1..(Len(extremes) - 1) : extremes[i].time < extremes[i + 1].time

(* The extremes alternate between low and high *)
Alternating == \A i \in 1..(Len(extremes) - 1) : extremes[i].type # extremes[i + 1].type

(* add_safety has returned and `tides` still holds every row *)
AfterSafety == pc \in {"add_limits", "trim"}

(* The daylight windows of a calendar date *)
WindowsOf(day) == {w \in Rows(sun) : Date(w.dawn) = day}

----------------------------------------------------------------------------
(* C1: after add_safety a sample is safe exactly when it is not a high     *)
(* tide, lies strictly less than `margin` hours from its governing low,    *)
(* and lies between dawn and dusk (both inclusive) of the daylight window  *)
(* of its own calendar date.                                               *)
C1_SafeIff ==
    AfterSafety =>
        \A r \in Rows(tides) :
            r.safe <=> /\ r.type # "high"
                       /\ r.time - r.low < MinutesPerHour * margin
                       /\ r.low - r.time < MinutesPerHour * margin
                       /\ \E w \in WindowsOf(Date(r.time)) :
                              w.dawn <= r.time /\ r.time <= w.dusk

(* A sample exactly `margin` from its low in daylight is unsafe, and a     *)
(* sample exactly at dawn and one exactly at dusk are safe.                *)
C1_Witness ==
    /\ pc = "add_limits"
    /\ margin > 0
    /\ \E r \in Rows(tides) :
          /\ r.type = "calc" /\ r.time - r.low = MinutesPerHour * margin
          /\ r.dawn <= r.time /\ r.time <= r.dusk /\ ~r.safe
    /\ \E r \in Rows(tides) : r.time = r.dawn /\ r.safe
    /\ \E r \in Rows(tides) : r.time = r.dusk /\ r.safe

----------------------------------------------------------------------------
(* C2: the frame add_driving returns holds exactly the rows of the frame   *)
(* of add_limits whose time is strictly after the smallest dusk and        *)
(* strictly before the largest dawn of the forecast: no other row is kept  *)
(* and no such row is removed.                                             *)
AfterMinDusk(t) == \E w \in Rows(sun) : t > w.dusk
BeforeMaxDawn(t) == \E w \in Rows(sun) : t < w.dawn

C2_Trim ==
    [][pc = "trim" =>
        /\ \A r \in Rows(tides') : AfterMinDusk(r.time) /\ BeforeMaxDawn(r.time)
        /\ \A r \in Rows(tides) :
              AfterMinDusk(r.time) /\ BeforeMaxDawn(r.time) => r \in Rows(tides')
        /\ Len(tides') <= Len(tides)]_vars

(* Some rows were returned and some were removed at each end. *)
C2_Witness ==
    /\ pc = "return"
    /\ tides # <<>>
    /\ \E f \in Rows(forecast_tides) : \A r \in Rows(tides) : f.time < r.time
    /\ \E f \in Rows(forecast_tides) : \A r \in Rows(tides) : f.time > r.time

----------------------------------------------------------------------------
(* C3: after add_limits, for every governing low with a safe sample,       *)
(* earliest is the smallest 5-minute boundary not before the first safe    *)
(* sample of the group and latest the largest 5-minute boundary not after  *)
(* its last safe sample.                                                   *)
SafeTimes(k) == {r.time : r \in {q \in Rows(tides) : q.safe /\ q.low = k}}

C3_Rounding ==
    pc = "trim" =>
        \A k \in {r.low : r \in {q \in Rows(tides) : q.safe}} :
            LET times == SafeTimes(k)
                first == CHOOSE t \in times : \A u \in times : t <= u
                last == CHOOSE t \in times : \A u \in times : t >= u
            IN  \A r \in Rows(tides) :
                    r.low = k =>
                        /\ r.earliest % RoundFreq = 0
                        /\ r.earliest >= first /\ r.earliest - RoundFreq < first
                        /\ r.latest % RoundFreq = 0
                        /\ r.latest <= last /\ r.latest + RoundFreq > last

(* A group whose first safe sample is off a boundary (earliest moved up)   *)
(* and whose last safe sample is off a boundary (latest moved down).       *)
C3_Witness ==
    /\ pc = "trim"
    /\ \E r \in Rows(tides) :
          /\ r.safe /\ r.time < r.earliest
          /\ \E q \in Rows(tides) : q.low = r.low /\ q.safe /\ q.time > q.latest

----------------------------------------------------------------------------
(* C4: for extremes sorted by time and alternating, after add_safety an    *)
(* interpolated sample between a High and the next Low is governed by that *)
(* Low, one between a Low and the next High by that Low, and a sample at   *)
(* or before the first extreme or at or after the last by its own time.    *)
C4_GoverningLow ==
    (AfterSafety /\ Increasing /\ Alternating) =>
        \A r \in Rows(tides) :
            /\ r.type = "calc" =>
                  \A i \in 1..(Len(extremes) - 1) :
                      (extremes[i].time < r.time /\ r.time < extremes[i + 1].time) =>
                          r.low = IF extremes[i].type = "high"
                                  THEN extremes[i + 1].time
                                  ELSE extremes[i].time
            /\ (r.time <= extremes[1].time
                    \/ r.time >= extremes[Len(extremes)].time) => r.low = r.time

(* Three alternating extremes with samples in a High-Low and a Low-High    *)
(* bracket.                                                                *)
C4_Witness ==
    /\ pc = "add_limits" /\ Increasing /\ Alternating
    /\ Len(extremes) >= 3
    /\ \E r \in Rows(tides) : r.type = "calc" /\ r.low > r.time
    /\ \E r \in Rows(tides) : r.type = "calc" /\ r.low < r.time

----------------------------------------------------------------------------
(* C5, as stated: once add_safety has returned, every sample, extremes of  *)
(* both kinds included, has as governing low the time of a low extreme of  *)
(* the input.                                                              *)
C5_EveryLow ==
    (AfterSafety /\ Increasing /\ Alternating
        /\ \E e \in Rows(extremes) : e.type = "low") =>
        \A r \in Rows(tides) :
            \E e \in Rows(extremes) : e.type = "low" /\ r.low = e.time

(* C5, amended: for extremes sorted by time and alternating, every low     *)
(* extreme and every interpolated sample has as governing low the time of  *)
(* the low extreme of its own High-to-High bracket, and every high extreme *)
(* keeps its own time.                                                     *)
C5_LowOfBracket ==
    (AfterSafety /\ Increasing /\ Alternating) =>
        \A r \in Rows(tides) :
            IF r.type = "high" THEN r.low = r.time
            ELSE \E i \in DOMAIN extremes :
                    /\ extremes[i].type = "low" /\ r.low = extremes[i].time
                    /\ i > 1 => extremes[i - 1].time < r.time
                    /\ i < Len(extremes) => r.time < extremes[i + 1].time

(* A high extreme between two lows, with samples governed by each low.     *)
C5_Witness ==
    /\ pc = "add_limits" /\ Increasing /\ Alternating
    /\ \E h \in Rows(tides) :
          /\ h.type = "high" /\ h.low = h.time
          /\ \E a \in Rows(tides) : a.type = "calc" /\ a.time < h.time /\ a.low < a.time
          /\ \E b \in Rows(tides) : b.type = "calc" /\ b.time > h.time /\ b.low > b.time

----------------------------------------------------------------------------
(* C6: add_limits keeps every row as it is and in place, gives the rows of *)
(* one governing low the same earliest and the same latest, both non-null  *)
(* when a safe row has that governing low and both null otherwise.         *)
HasSafe(k) == \E q \in Rows(tides) : q.safe /\ q.low = k

C6_Merge ==
    [][pc = "add_limits" =>
        /\ Len(tides') = Len(tides)
        /\ \A i \in DOMAIN tides :
              /\ tides'[i].time = tides[i].time /\ tides'[i].type = tides[i].type
              /\ tides'[i].low = tides[i].low /\ tides'[i].safe = tides[i].safe
              /\ tides'[i].height = tides[i].height
              /\ (tides'[i].earliest # NaT) <=> HasSafe(tides[i].low)
              /\ (tides'[i].latest # NaT) <=> HasSafe(tides[i].low)
        /\ Cardinality({<<r.low, r.earliest, r.latest>> : r \in Rows(tides')})
              = Cardinality({r.low : r \in Rows(tides')})]_vars

(* An unsafe row carrying the limits of its low, and a row without limits. *)
C6_Witness ==
    /\ pc = "trim"
    /\ \E r \in Rows(tides) : ~r.safe /\ r.type = "calc" /\ r.earliest # NaT
    /\ \E r \in Rows(tides) : r.type = "calc" /\ r.earliest = NaT /\ r.latest = NaT

----------------------------------------------------------------------------
(* C7: for extremes sorted by time and alternating, every sample governed  *)
(* by a low whose window has earliest <= latest and whose time lies in     *)
(* [earliest, latest] is safe.                                             *)
C7_SafeWindow ==
    (pc = "trim" /\ Increasing /\ Alternating) =>
        \A r \in Rows(tides) :
            (r.earliest # NaT /\ r.earliest <= r.latest
                /\ r.earliest <= r.time /\ r.time <= r.latest) => r.safe

----------------------------------------------------------------------------
(* C8: for extremes strictly increasing in time, interpolate_heights       *)
(* returns one row per minute from the first extreme's time to the last's, *)
(* in order; the row at an extreme's time is that extreme, unmodified, and *)
(* every other row is of type calc.                                        *)
Interpolated == pc \in {"add_safety", "add_limits", "trim", "return"}

C8_EveryMinute ==
    (Interpolated /\ Increasing) =>
        LET first == extremes[1].time
            last == extremes[Len(extremes)].time
        IN  /\ Len(forecast_tides) = last - first + 1
            /\ \A k \in DOMAIN forecast_tides :
                  /\ forecast_tides[k].time = first + k - 1
                  /\ IF \E e \in Rows(extremes) : e.time = first + k - 1
                     THEN forecast_tides[k] \in Rows(extremes)
                     ELSE forecast_tides[k].type = "calc"

(* Three increasing extremes with interpolated rows in both gaps.          *)
C8_Witness ==
    /\ pc = "add_safety" /\ Increasing /\ Len(extremes) = 3
    /\ Len(forecast_tides) > Len(extremes) + 2
    /\ \E k \in DOMAIN forecast_tides :
          /\ forecast_tides[k] = extremes[2]
          /\ forecast_tides[k - 1].type = "calc"
          /\ forecast_tides[k + 1].type = "calc"

----------------------------------------------------------------------------
(* C10: add_safety keeps every sample; a sample whose calendar date has no *)
(* daylight window gets null dawn and dusk and is not safe, and a sample   *)
(* whose date has one gets that window's dawn and dusk and is classified   *)
(* by them.                                                                *)
C10_NoWindow ==
    AfterSafety =>
        /\ Len(tides) = Len(forecast_tides)
        /\ \A i \in DOMAIN tides :
              LET r == tides[i]
                  ws == WindowsOf(Date(r.time))
              IN  /\ r.time = forecast_tides[i].time
                  /\ r.type = forecast_tides[i].type
                  /\ IF ws = {}
                     THEN r.dawn = NaT /\ r.dusk = NaT /\ ~r.safe
                     ELSE \E w \in ws :
                            /\ r.dawn = w.dawn /\ r.dusk = w.dusk
                            /\ r.safe <=> /\ r.type # "high"
                                          /\ Abs(r.time - r.low) < MinutesPerHour * margin
                                          /\ w.dawn <= r.time /\ r.time <= w.dusk

(* A sample near its low on a date without window, and a safe sample on a  *)
(* date with one.                                                          *)
C10_Witness ==
    /\ pc = "add_limits"
    /\ \E r \in Rows(tides) :
          /\ WindowsOf(Date(r.time)) = {} /\ r.type = "calc"
          /\ Abs(r.time - r.low) < MinutesPerHour * margin
          /\ r.dawn = NaT /\ ~r.safe
    /\ \E r \in Rows(tides) : r.safe

----------------------------------------------------------------------------
(* C11: when the source returns no tide extreme, the computation fails     *)
(* with NoDataError: not with another error, and without a result.         *)
C11_NoDataError ==
    (extremes = <<>> /\ pc # "tide_times") =>
        (pc = "raised" /\ error = "NoDataError")

----------------------------------------------------------------------------
(* C12: when an extreme's time is earlier than the time of the extreme     *)
(* before it, or the height units are not recognised, the computation      *)
(* fails with DataError and produces no forecast.                          *)
NonMonotonic ==
    \E i \in 2..Len(extremes) : extremes[i].time < extremes[i - 1].time

C12_DataError ==
    (extremes # <<>> /\ pc # "tide_times"
        /\ (NonMonotonic \/ units \notin RecognisedUnits)) =>
        (pc = "raised" /\ error = "DataError")

----------------------------------------------------------------------------
----------------------------------------------------------------------------
(* C14, as stated: for lows at 00:00 and 12:00 around a high at 06:00,     *)
(* dawn 05:00, dusk 19:00 and margin 3 h, the classified samples hold a    *)
(* sample at 02:00 that is not safe and a sample at 14:00 that is safe.    *)
Scenario ==
    extremes = ScenarioExtremes /\ sun = ScenarioSun /\ margin = safe_hours

SampleAt(hour) == {r \in Rows(tides) : r.time = hour * MinutesPerHour}

C14_Scenario ==
    (Scenario /\ AfterSafety) =>
        /\ \E r \in SampleAt(2) : ~r.safe
        /\ \E r \in SampleAt(14) : r.safe

(* C14, amended: the classified samples hold a sample at 02:00 that is not *)
(* safe, no sample after the last extreme at 12:00 (so none at 14:00), and *)
(* a sample at 10:00, within the margin of the 12:00 low and in daylight,  *)
(* that is safe.                                                           *)
C14_ScenarioInSpan ==
    (Scenario /\ AfterSafety) =>
        /\ \E r \in SampleAt(2) : ~r.safe
        /\ \A r \in Rows(tides) : r.time <= 12 * MinutesPerHour
        /\ SampleAt(14) = {}
        /\ \E r \in SampleAt(10) : r.safe

(* The scenario classified: one sample per minute from 00:00 to 12:00.     *)
C14_Witness ==
    /\ Scenario /\ pc = "add_limits"
    /\ Len(tides) = 12 * MinutesPerHour + 1
    /\ \E r \in SampleAt(10) : r.low = 12 * MinutesPerHour

----------------------------------------------------------------------------
(* C15: after add_limits, a governing low whose safe samples hold no       *)
(* 5-minute boundary between their first and last time gives every sample  *)
(* it governs a non-null earliest and latest with earliest > latest; and a *)
(* governing low whose last safe time is at least 4 minutes after its      *)
(* first has earliest <= latest.                                           *)
SafeLows == {r.low : r \in {q \in Rows(tides) : q.safe}}

C15_Collapsed ==
    pc = "trim" =>
        \A k \in SafeLows :
            LET group == SelectSeq(tides, LAMBDA r : r.safe /\ r.low = k)
                first == SeqMin(group, 1, Len(group))
                last == SeqMax(group, 1, Len(group))
                governed == {r \in Rows(tides) : r.low = k}
            IN  /\ (\A b \in first..last : b % RoundFreq # 0) =>
                      \A r \in governed :
                          /\ r.earliest # NaT /\ r.latest # NaT
                          /\ r.earliest > r.latest
                /\ (last - first >= RoundFreq - 1) =>
                      \A r \in governed : r.earliest <= r.latest

(* A low with several safe samples, all within one 5-minute block, whose   *)
(* collapsed window is carried by its safe and by its unsafe samples.      *)
C15_Witness ==
    /\ pc = "trim"
    /\ \E r \in Rows(tides) :
          /\ ~r.safe /\ r.earliest # NaT /\ r.earliest > r.latest
          /\ \E a, b \in Rows(tides) :
                /\ a.low = r.low /\ b.low = r.low /\ a.safe /\ b.safe
                /\ a.time < b.time /\ a.earliest > a.latest

----------------------------------------------------------------------------
(* C16: for extremes sorted by time and alternating, if L1 < L2 are        *)
(* governing lows that both have safe samples, every safe sample of L1 is  *)
(* earlier than every safe sample of L2 and latest(L1) < earliest(L2).     *)
C16_Ordered ==
    (pc = "trim" /\ Increasing /\ Alternating) =>
        \A k1, k2 \in SafeLows :
            k1 < k2 =>
                LET g1 == SelectSeq(tides, LAMBDA r : r.safe /\ r.low = k1)
                    g2 == SelectSeq(tides, LAMBDA r : r.safe /\ r.low = k2)
                IN  /\ SeqMax(g1, 1, Len(g1)) < SeqMin(g2, 1, Len(g2))
                    /\ \A i \in DOMAIN g1 : \A j \in {1, Len(g2)} :
                          g1[i].latest < g2[j].earliest

(* Two lows around a high, each with safe samples.                         *)
C16_Witness ==
    /\ pc = "trim" /\ Increasing /\ Alternating
    /\ \E a, b \in Rows(tides) :
          /\ a.safe /\ b.safe /\ a.low < b.low
          /\ a.type = "calc" /\ b.type = "calc"

====
